---- MODULE Spec2Model ----
(***************************************************************************)
(* Model of leptos_i18n_macro/src/load_locales/locale.rs: the loading of   *)
(* the locale files (LocalesOrNamespaces::new, Namespace::new,             *)
(* Locale::new) and the resolution of the loaded trees into one Schema per *)
(* scope (Locale::check_locales, check_locales_inner, make_builder_keys,   *)
(* merge).                                                                 *)
(*                                                                         *)
(* A Key is a name.  A name is held as the sequence of its dot-separated   *)
(* segments (<<"fr", "CA">> is the name fr.CA), which is what              *)
(* PathBuf::set_extension looks at.  A PathBuf is the sequence of its      *)
(* components, each a name.  A map (HashMap<Rc<Key>, _>) is a function     *)
(* whose domain is its key set; its iteration order is an input of every   *)
(* step that iterates it.  The parsed content of a locale file is an input *)
(* of the step of check_locales_inner that first reads it.                 *)
(***************************************************************************)
EXTENDS Naturals, Sequences, FiniteSets, TLC

VARIABLES
    cfg_locales,     \* ConfigFile::locales
    name_spaces,     \* ConfigFile::name_spaces: <<FALSE, <<>>>> is None
    pc,              \* position: "new", "load", "check", "merge", "done"
    path,            \* the shared path buffer (manifest_dir_path)
    path_before,     \* value of the buffer when the current load began
    opened,          \* the path handed to File::open by the last load
    loading,         \* the locale and namespace keys of the last load
    namespaces,      \* Vec<Namespace> built so far
    locales,         \* Vec<Locale> being built / being checked (names)
    ni,              \* index of the namespace being loaded / checked
    li,              \* index of the locale being loaded / merged
    default_tree,    \* keys of the default locale of the current scope
    default_keys,    \* the Schema of the current scope (BuildersKeysInner)
    key_path,        \* the KeyPath of check_locales_inner
    cur,             \* the Locale handed to the last Locale::merge
    pre_path,        \* the KeyPath at the call of the last Locale::merge
    emitted,         \* warnings emitted by the last step
    keys,            \* check_locales: namespace key -> Schema
    result           \* what the pipeline returned

vars == <<cfg_locales, name_spaces, pc, path, path_before, opened, loading, namespaces,
          locales, ni, li, default_tree, default_keys, key_path, cur, pre_path,
          emitted, keys, result>>

load_vars == <<path, path_before, opened, loading, namespaces>>
check_vars == <<default_tree, default_keys, key_path, cur, pre_path, emitted, keys>>

(***************************************************************************)
(* Bounds                                                                  *)
(***************************************************************************)
MaxLocales == 3
MaxNamespaces == 2

AllLocales == << <<"en">>, <<"fr", "CA">>, <<"de">>, <<"es">>, <<"it">> >>
AllNamespaces == << <<"common">>, <<"home", "v2">>, <<"about">>, <<"blog">> >>
ManifestDir == << <<"proj">> >>
LocalesDir == <<"locales">>

\* keys of the translation files: a flat project uses FlatKeys, a
\* namespaced one NsKeys; a nested subtree has keys among SubKeys
FlatKeys == {"a", "b"}
NsKeys == {"a"}
SubKeys == {"a"}

FILE_FORMAT == <<"json">>

(***************************************************************************)
(* Values                                                                  *)
(***************************************************************************)
NoName == <<>>
NoErr == [kind |-> "none"]
NoLocale == [name |-> NoName, keys |-> <<>>]

\* ParsedValue: String (any leaf), Default (the inherit marker), Subkeys
ParsedString == [kind |-> "String"]
ParsedDefault == [kind |-> "Default"]
ParsedSubkeys(t) == [kind |-> "Subkeys", keys |-> t]

MapsOver(ks, vals) == UNION {[d -> vals] : d \in SUBSET ks}

LeafValues == {ParsedString, ParsedDefault}
SubTrees == MapsOver(SubKeys, LeafValues)
TreesOver(ks) == MapsOver(ks, LeafValues \cup {ParsedSubkeys(t) : t \in SubTrees})

Orders(ks) == {o \in [1..Cardinality(ks) -> ks] : \A i, j \in DOMAIN o : o[i] = o[j] => i = j}
AllKeys == FlatKeys \cup NsKeys \cup SubKeys
\* the keys of map m in the order in which iteration order o visits them
Iter(m, o) == SelectSeq(o, LAMBDA k : k \in DOMAIN m)

(***************************************************************************)
(* PathBuf                                                                 *)
(***************************************************************************)
push(p, name) == Append(p, name)

pop(p) == IF p = <<>> THEN p ELSE SubSeq(p, 1, Len(p) - 1)

\* the file stem of a file name: everything before its last dot
file_stem(name) == IF Len(name) > 1 THEN SubSeq(name, 1, Len(name) - 1) ELSE name

set_extension(p, ext) ==
    IF p = <<>> THEN p
    ELSE [p EXCEPT ![Len(p)] = file_stem(p[Len(p)]) \o ext]

(***************************************************************************)
(* KeyPath                                                                 *)
(***************************************************************************)
KeyPath_new(namespace) == [namespace |-> namespace, path |-> <<>>]
push_key(kp, key) == [kp EXCEPT !.path = Append(@, key)]
pop_key(kp) == [kp EXCEPT !.path = IF @ = <<>> THEN @ ELSE SubSeq(@, 1, Len(@) - 1)]

(***************************************************************************)
(* Results and errors                                                      *)
(***************************************************************************)
NoValue == [kind |-> "none"]
Ok(v) == [status |-> "Ok", err |-> NoErr, value |-> v]
Err(e) == [status |-> "Err", err |-> e, value |-> NoValue]
Running == [status |-> "none", err |-> NoErr, value |-> NoValue]

namespaced == name_spaces[1]
namespace_keys == name_spaces[2]

(***************************************************************************)
(* Locale loading                                                          *)
(***************************************************************************)
FileOutcomes == {"NotFound", "Deser", "Ok"}

\* Locale::new and Locale::de on buffer p, the file system answering
\* `outcome`: the buffer afterwards, the path opened, the error if any
Locale_new(p, outcome) ==
    IF outcome = "NotFound"
    THEN [path |-> <<>>, opened |-> p, err |-> [kind |-> "LocaleFileNotFound", path |-> p]]
    ELSE IF outcome = "Deser"
    THEN [path |-> <<>>, opened |-> p, err |-> [kind |-> "LocaleFileDeser", path |-> p]]
    ELSE [path |-> p, opened |-> p, err |-> NoErr]

\* the buffer handed to Locale::new by one iteration of Namespace::new
Namespace_path(p, key, locale) == set_extension(push(push(p, locale), key), FILE_FORMAT)

\* the buffer handed to Locale::new by one iteration of the flat loop
Locales_path(p, locale) == set_extension(push(p, locale), FILE_FORMAT)

\* a loader that walks locale_keys from its end
locale_at_reversed(locale_keys, i) == locale_keys[Len(locale_keys) + 1 - i]

\* the order in which Namespace::new and the flat loop visit locale_keys
locale_at(locale_keys, i) == locale_keys[i]

(***************************************************************************)
(* Schema construction                                                     *)
(***************************************************************************)
LocaleValue_Value == [kind |-> "Value"]
LocaleValue_Subkeys(ks) == [kind |-> "Subkeys", keys |-> ks]

RECURSIVE make_builder_keys(_)
\* ParsedValue::make_locale_value: a subtree is classified recursively,
\* anything else is a leaf
make_locale_value(value) ==
    IF value.kind = "Subkeys"
    THEN LocaleValue_Subkeys(make_builder_keys(value.keys))
    ELSE LocaleValue_Value

make_builder_keys(self_keys) ==
    [key \in DOMAIN self_keys |-> make_locale_value(self_keys[key])]

(***************************************************************************)
(* Merge                                                                   *)
(***************************************************************************)
Warning(kind, locale, kp) == [kind |-> kind, locale |-> locale, key_path |-> kp]

\* the state threaded through a merge: the Schema, the KeyPath, the
\* warnings emitted so far and the error returned, if any
MergeState(ks, kp, ws, e) == [keys |-> ks, key_path |-> kp, warnings |-> ws, err |-> e]

RECURSIVE Locale_merge(_, _, _, _, _)
RECURSIVE merge_forward(_, _, _, _, _)

\* ParsedValue::merge of `value` against the Schema entry `entry`
ParsedValue_merge(value, entry, top_locale, kp, ord) ==
    IF value.kind = "Default"
    THEN [entry |-> entry, key_path |-> kp, warnings |-> <<>>, err |-> NoErr]
    ELSE IF value.kind = "Subkeys" /\ entry.kind = "Subkeys"
    THEN LET r == Locale_merge(value.keys, entry.keys, top_locale, kp, ord)
         IN  [entry |-> LocaleValue_Subkeys(r.keys), key_path |-> r.key_path,
              warnings |-> r.warnings, err |-> r.err]
    ELSE IF value.kind = "String" /\ entry.kind = "Value"
    THEN [entry |-> entry, key_path |-> kp, warnings |-> <<>>, err |-> NoErr]
    ELSE [entry |-> entry, key_path |-> kp, warnings |-> <<>>,
          err |-> [kind |-> "SubKeyMissmatch", locale |-> top_locale, key_path |-> kp]]

\* one iteration of the forward loop of Locale::merge, for Schema key `key`
merge_forward_key(self_keys, key, st, top_locale, ord) ==
    LET kp == push_key(st.key_path, key)
    IN  IF key \in DOMAIN self_keys
        THEN LET r == ParsedValue_merge(self_keys[key], st.keys[key], top_locale, kp, ord)
             IN  IF r.err # NoErr
                 THEN MergeState(st.keys, r.key_path, st.warnings \o r.warnings, r.err)
                 ELSE MergeState([st.keys EXCEPT ![key] = r.entry], pop_key(r.key_path),
                                 st.warnings \o r.warnings, NoErr)
        ELSE MergeState(st.keys, pop_key(kp),
                        Append(st.warnings, Warning("MissingKey", top_locale, kp)), NoErr)

\* a forward loop that goes on to the next key after an error
RECURSIVE merge_forward_goes_on(_, _, _, _, _)
merge_forward_goes_on(self_keys, todo, st, top_locale, ord) ==
    IF todo = <<>>
    THEN st
    ELSE merge_forward_goes_on(self_keys, Tail(todo),
                               merge_forward_key(self_keys, Head(todo), st, top_locale, ord),
                               top_locale, ord)

\* the forward loop over the Schema keys `todo`; an error returns at once
merge_forward(self_keys, todo, st, top_locale, ord) ==
    IF todo = <<>> \/ st.err # NoErr
    THEN st
    ELSE merge_forward(self_keys, Tail(todo),
                       merge_forward_key(self_keys, Head(todo), st, top_locale, ord),
                       top_locale, ord)

\* a reverse loop that takes a surplus key into the Schema
merge_reverse_key_adopts(key, st, top_locale) ==
    IF key \notin DOMAIN st.keys
    THEN MergeState([k \in DOMAIN st.keys \cup {key} |->
                        IF k = key THEN LocaleValue_Value ELSE st.keys[k]],
                    st.key_path, st.warnings, NoErr)
    ELSE st

\* one iteration of the reverse loop of Locale::merge, for own key `key`
merge_reverse_key(key, st, top_locale) ==
    IF key \notin DOMAIN st.keys
    THEN LET kp == push_key(st.key_path, key)
         IN  MergeState(st.keys, kp,
                        Append(st.warnings, Warning("SurplusKey", top_locale, kp)), NoErr)
    ELSE st

RECURSIVE merge_reverse(_, _, _)
merge_reverse(todo, st, top_locale) ==
    IF todo = <<>>
    THEN st
    ELSE merge_reverse(Tail(todo), merge_reverse_key(Head(todo), st, top_locale), top_locale)

\* Locale::merge; ord.fwd is the iteration order of the Schema, ord.rev
\* that of the locale's own keys
Locale_merge(self_keys, ks, top_locale, kp, ord) ==
    LET fwd == merge_forward(self_keys, Iter(ks, ord.fwd),
                             MergeState(ks, kp, <<>>, NoErr), top_locale, ord)
    IN  IF fwd.err # NoErr
        THEN fwd
        ELSE merge_reverse(Iter(self_keys, ord.rev), fwd, top_locale)

\* the inherit-marker check that opens check_locales_inner: the first
\* marker met in iteration order `o` is the error
RECURSIVE default_check(_, _, _)
default_check(tree, todo, kp) ==
    IF todo = <<>>
    THEN NoErr
    ELSE IF tree[Head(todo)].kind = "Default"
    THEN [kind |-> "ExplicitDefaultInDefault", key_path |-> push_key(kp, Head(todo))]
    ELSE default_check(tree, Tail(todo), kp)

(***************************************************************************)
(* Inputs                                                                  *)
(***************************************************************************)
Trees == IF namespaced THEN TreesOver(NsKeys) ELSE TreesOver(FlatKeys)
IterOrders == [fwd : Orders(AllKeys), rev : Orders(AllKeys)]

\* the locales of the scope being checked and its namespace
scope_locales == IF namespaced THEN namespaces[ni].locales ELSE locales
scope_namespace == IF namespaced THEN namespaces[ni].key ELSE NoName

(***************************************************************************)
(* Initial state: a configuration, nothing loaded                          *)
(***************************************************************************)
Init ==
    /\ cfg_locales \in {SubSeq(AllLocales, 1, n) : n \in 1..MaxLocales}
    /\ name_spaces \in {<<FALSE, <<>>>>}
                        \cup {<<TRUE, SubSeq(AllNamespaces, 1, m)>> : m \in 1..MaxNamespaces}
    /\ pc = "new"
    /\ path = ManifestDir
    /\ path_before = ManifestDir
    /\ opened = <<>>
    /\ loading = [locale |-> NoName, namespace |-> NoName]
    /\ namespaces = <<>>
    /\ locales = <<>>
    /\ ni = 1
    /\ li = 1
    /\ default_tree = <<>>
    /\ default_keys = <<>>
    /\ key_path = KeyPath_new(NoName)
    /\ cur = NoLocale
    /\ pre_path = KeyPath_new(NoName)
    /\ emitted = <<>>
    /\ keys = <<>>
    /\ result = Running

(***************************************************************************)
(* LocalesOrNamespaces::new                                                *)
(***************************************************************************)
\* the entry of LocalesOrNamespaces::new: the locales directory is pushed
new_start ==
    /\ pc = "new"
    /\ path' = push(path, LocalesDir)
    /\ path_before' = push(path, LocalesDir)
    /\ pc' = "load"
    /\ UNCHANGED <<cfg_locales, name_spaces, opened, loading, namespaces, locales,
                   ni, li, result>>
    /\ UNCHANGED check_vars

\* one iteration of the flat loop of LocalesOrNamespaces::new
load_locale ==
    /\ pc = "load"
    /\ ~namespaced
    /\ li <= Len(cfg_locales)
    /\ \E outcome \in FileOutcomes :
          LET locale == locale_at(cfg_locales, li)
              r == Locale_new(Locales_path(path, locale), outcome)
          IN  /\ path_before' = path
              /\ loading' = [locale |-> locale, namespace |-> NoName]
              /\ opened' = r.opened
              /\ IF r.err # NoErr
                 THEN /\ path' = r.path
                      /\ result' = Err(r.err)
                      /\ pc' = "done"
                      /\ UNCHANGED <<locales, li>>
                 ELSE /\ path' = pop(r.path)
                      /\ locales' = Append(locales, locale)
                      /\ li' = li + 1
                      /\ pc' = IF li = Len(cfg_locales) THEN "check" ELSE "load"
                      /\ UNCHANGED result
    /\ UNCHANGED <<cfg_locales, name_spaces, namespaces, ni>>
    /\ UNCHANGED check_vars

\* one iteration of the loop of Namespace::new, for namespace
\* namespace_keys[ni]; the last one returns the Namespace, which
\* LocalesOrNamespaces::new pushes
load_namespace_locale ==
    /\ pc = "load"
    /\ namespaced
    /\ ni <= Len(namespace_keys)
    /\ li <= Len(cfg_locales)
    /\ \E outcome \in FileOutcomes :
          LET key == namespace_keys[ni]
              locale == locale_at(cfg_locales, li)
              r == Locale_new(Namespace_path(path, key, locale), outcome)
              last == li = Len(cfg_locales)
          IN  /\ path_before' = path
              /\ loading' = [locale |-> locale, namespace |-> key]
              /\ opened' = r.opened
              /\ IF r.err # NoErr
                 THEN /\ path' = r.path
                      /\ result' = Err(r.err)
                      /\ pc' = "done"
                      /\ UNCHANGED <<locales, namespaces, li, ni>>
                 ELSE /\ path' = pop(pop(r.path))
                      /\ locales' = IF last THEN <<>> ELSE Append(locales, locale)
                      /\ namespaces' =
                            IF last
                            THEN Append(namespaces,
                                        [key |-> key, locales |-> Append(locales, locale)])
                            ELSE namespaces
                      /\ li' = IF last THEN 1 ELSE li + 1
                      /\ ni' = IF last /\ ni < Len(namespace_keys) THEN ni + 1
                               ELSE IF last THEN 1 ELSE ni
                      /\ pc' = IF last /\ ni = Len(namespace_keys) THEN "check" ELSE "load"
                      /\ UNCHANGED result
    /\ UNCHANGED <<cfg_locales, name_spaces>>
    /\ UNCHANGED check_vars

(***************************************************************************)
(* Locale::check_locales                                                   *)
(***************************************************************************)
\* check_locales_inner up to its merge loop: the inherit-marker check of
\* the default locale and the construction of the Schema
check_default ==
    /\ pc = "check"
    /\ \E tree \in Trees, o \in Orders(AllKeys) :
          LET kp == KeyPath_new(scope_namespace)
              e == default_check(tree, Iter(tree, o), kp)
          IN  /\ default_tree' = tree
              /\ IF e # NoErr
                 THEN /\ result' = Err(e)
                      /\ pc' = "done"
                      /\ UNCHANGED <<default_keys, key_path>>
                 ELSE /\ default_keys' = make_builder_keys(tree)
                      /\ key_path' = kp
                      /\ pc' = "merge"
                      /\ UNCHANGED result
    /\ li' = 2
    /\ cur' = NoLocale
    /\ pre_path' = KeyPath_new(scope_namespace)
    /\ emitted' = <<>>
    /\ UNCHANGED <<cfg_locales, name_spaces, locales, ni, keys>>
    /\ UNCHANGED load_vars

\* one iteration of the merge loop of check_locales_inner
merge_locale ==
    /\ pc = "merge"
    /\ li <= Len(scope_locales)
    /\ \E tree \in Trees, ord \in IterOrders :
          LET top_locale == scope_locales[li]
              r == Locale_merge(tree, default_keys, top_locale, key_path, ord)
          IN  /\ cur' = [name |-> top_locale, keys |-> tree]
              /\ pre_path' = key_path
              /\ emitted' = r.warnings
              /\ IF r.err # NoErr
                 THEN /\ result' = Err(r.err)
                      /\ pc' = "done"
                      /\ UNCHANGED <<default_keys, key_path, li>>
                 ELSE /\ default_keys' = r.keys
                      /\ key_path' = r.key_path
                      /\ li' = li + 1
                      /\ UNCHANGED <<pc, result>>
    /\ UNCHANGED <<cfg_locales, name_spaces, locales, ni, default_tree, keys>>
    /\ UNCHANGED load_vars

\* check_locales_inner returns its Schema; check_locales keeps it and goes
\* on to the next namespace, or returns
check_return ==
    /\ pc = "merge"
    /\ li > Len(scope_locales)
    /\ IF ~namespaced
       THEN /\ result' = Ok([kind |-> "Locales", keys |-> default_keys])
            /\ pc' = "done"
            /\ UNCHANGED <<keys, ni>>
       ELSE LET ks == [k \in DOMAIN keys \cup {scope_namespace} |->
                         IF k = scope_namespace THEN default_keys ELSE keys[k]]
            IN  /\ keys' = ks
                /\ IF ni = Len(namespaces)
                   THEN /\ result' = Ok([kind |-> "NameSpaces", keys |-> ks])
                        /\ pc' = "done"
                        /\ UNCHANGED ni
                   ELSE /\ ni' = ni + 1
                        /\ pc' = "check"
                        /\ UNCHANGED result
    /\ UNCHANGED <<cfg_locales, name_spaces, locales, li, default_tree, default_keys,
                   key_path, cur, pre_path, emitted>>
    /\ UNCHANGED load_vars

Next ==
    \/ new_start
    \/ load_locale
    \/ load_namespace_locale
    \/ check_default
    \/ merge_locale
    \/ check_return

Spec == Init /\ [][Next]_vars

(***************************************************************************)
(* What the trees of a scope contain, computed from the trees alone        *)
(***************************************************************************)
Range(seq) == {seq[i] : i \in DOMAIN seq}
Count(seq, x) == Cardinality({i \in DOMAIN seq : seq[i] = x})
CountKind(seq, kind) == Cardinality({i \in DOMAIN seq : seq[i].kind = kind})

\* a locale value and a Schema entry that are both subtrees
BothSubkeys(tree, schema, k) ==
    /\ k \in DOMAIN tree \cap DOMAIN schema
    /\ tree[k].kind = "Subkeys"
    /\ schema[k].kind = "Subkeys"

\* paths of the Schema keys that `tree` lacks, at every depth
RECURSIVE MissingPaths(_, _, _)
MissingPaths(tree, schema, prefix) ==
    {Append(prefix, k) : k \in DOMAIN schema \ DOMAIN tree}
    \cup UNION {MissingPaths(tree[k].keys, schema[k].keys, Append(prefix, k)) :
                  k \in {x \in DOMAIN schema : BothSubkeys(tree, schema, x)}}

\* paths of the keys of `tree` that the Schema lacks, at every depth
RECURSIVE SurplusPaths(_, _, _)
SurplusPaths(tree, schema, prefix) ==
    {Append(prefix, k) : k \in DOMAIN tree \ DOMAIN schema}
    \cup UNION {SurplusPaths(tree[k].keys, schema[k].keys, Append(prefix, k)) :
                  k \in {x \in DOMAIN schema : BothSubkeys(tree, schema, x)}}

\* paths of the inherit markers of `tree`, at every depth
RECURSIVE DefaultPaths(_, _)
DefaultPaths(tree, prefix) ==
    {Append(prefix, k) : k \in {x \in DOMAIN tree : tree[x].kind = "Default"}}
    \cup UNION {DefaultPaths(tree[k].keys, Append(prefix, k)) :
                  k \in {x \in DOMAIN tree : tree[x].kind = "Subkeys"}}

\* some value of `tree` has another shape than the Schema gives its key
RECURSIVE HasMismatch(_, _)
HasMismatch(tree, schema) ==
    \E k \in DOMAIN tree \cap DOMAIN schema :
        \/ tree[k].kind = "Subkeys" /\ schema[k].kind = "Value"
        \/ tree[k].kind = "String" /\ schema[k].kind = "Subkeys"
        \/ BothSubkeys(tree, schema, k) /\ HasMismatch(tree[k].keys, schema[k].keys)

\* `schema` has the keys of `tree` and a subtree exactly where `tree` has
RECURSIVE SchemaOf(_, _)
SchemaOf(tree, schema) ==
    /\ DOMAIN schema = DOMAIN tree
    /\ \A k \in DOMAIN tree :
          IF tree[k].kind = "Subkeys"
          THEN schema[k].kind = "Subkeys" /\ SchemaOf(tree[k].keys, schema[k].keys)
          ELSE schema[k] = LocaleValue_Value

\* a Locale::merge has run in the current scope, and how it returned
merged == cur.name # NoName /\ pc # "check"
merge_ok == merged /\ result.status # "Err"
merge_err == merged /\ result.status = "Err"
ScopePath(p) == [namespace |-> scope_namespace, path |-> p]

\* the path a load must open
ExpectedPath(locale, namespace) ==
    IF namespace = NoName
    THEN ManifestDir \o <<LocalesDir, locale \o FILE_FORMAT>>
    ELSE ManifestDir \o <<LocalesDir, locale, namespace \o FILE_FORMAT>>

(***************************************************************************)
(* Claims                                                                  *)
(***************************************************************************)
\* C1: when the merge of a non-default locale L returns, every Schema key
\* that L lacks (at any depth) has exactly one MissingKey warning with
\* locale L and exactly the path of that key in the scope, and the Schema
\* is still the one built from the default locale.
C1_MissingKeyWarned ==
    merge_ok =>
        /\ \A p \in MissingPaths(cur.keys, default_keys, <<>>) :
              Count(emitted, Warning("MissingKey", cur.name, ScopePath(p))) = 1
        /\ SchemaOf(default_tree, default_keys)

\* C2: when the merge of a non-default locale L returns, every key of L
\* that the Schema lacks has exactly one SurplusKey warning with locale L
\* and exactly the path of that key.
C2_SurplusKeyWarned ==
    merge_ok =>
        \A p \in SurplusPaths(cur.keys, default_keys, <<>>) :
            Count(emitted, Warning("SurplusKey", cur.name, ScopePath(p))) = 1

\* C3: a default locale with an inherit marker at any depth makes
\* check_locales fail with ExplicitDefaultInDefault carrying the path of a
\* marker, and no Schema is returned.
C3_DefaultInDefaultRejected ==
    DefaultPaths(default_tree, <<>>) # {} =>
        /\ result.status = "Err"
        /\ result.err.kind = "ExplicitDefaultInDefault"
        /\ result.err.key_path \in {ScopePath(p) : p \in DefaultPaths(default_tree, <<>>)}
        /\ result.value = NoValue

\* C4: from the construction of the Schema on, through every merge and in
\* the value check_locales returns, the Schema of the scope has exactly the
\* keys of the default locale and a subtree exactly where the default
\* locale has one.
C4_SchemaAuthority ==
    /\ pc = "merge" => SchemaOf(default_tree, default_keys)
    /\ result.status = "Ok" =>
          SchemaOf(default_tree,
                   IF namespaced THEN result.value.keys[scope_namespace]
                   ELSE result.value.keys)

C4_Witness ==
    /\ result.status = "Ok"
    /\ merged
    /\ SurplusPaths(cur.keys, default_keys, <<>>) # {}
    /\ MissingPaths(cur.keys, default_keys, <<>>) # {}
    /\ \E k \in DOMAIN default_keys : default_keys[k].kind = "Subkeys"

\* C5: a shape mismatch in the locale being merged makes check_locales
\* return SubKeyMissmatch at once: the run is over, no Schema is returned
\* (the completed namespaces' included), the failing locale is the last one
\* touched, its reverse pass never ran and its namespace has no Schema.
\* Nothing else makes a merge fail, and a merge that returns has warned
\* about every missing and every surplus key.
C5_FatalAborts ==
    /\ result.status = "Err" => pc = "done" /\ result.value = NoValue
    /\ (merged /\ HasMismatch(cur.keys, default_keys)) =>
          /\ result.status = "Err"
          /\ result.err.kind = "SubKeyMissmatch"
          /\ result.err.locale = cur.name
          /\ li <= Len(scope_locales) /\ scope_locales[li] = cur.name
          /\ \A i \in DOMAIN emitted :
                emitted[i].kind = "SurplusKey" => Len(emitted[i].key_path.path) >= 2
          /\ namespaced => scope_namespace \notin DOMAIN keys
    /\ merge_err => HasMismatch(cur.keys, default_keys)
    /\ merge_ok =>
          /\ CountKind(emitted, "MissingKey")
                = Cardinality(MissingPaths(cur.keys, default_keys, <<>>))
          /\ CountKind(emitted, "SurplusKey")
                = Cardinality(SurplusPaths(cur.keys, default_keys, <<>>))

C5_Witness ==
    /\ namespaced
    /\ merge_err
    /\ result.err.kind = "SubKeyMissmatch"
    /\ keys # <<>>
    /\ li < Len(scope_locales)

\* C6: in namespaced mode every Namespace holds the configured locales in
\* configuration order, so the default of every scope is the first
\* configured locale and every merged locale is a later locale of the same
\* namespace; every scope starts from an empty KeyPath of its own
\* namespace; the Schemas kept are those of the namespaces completed so
\* far, and the value returned maps every namespace key to a Schema, the
\* last one built from that namespace's default locale.
C6_NamespacesIndependent ==
    (namespaced /\ pc \in {"check", "merge", "done"}
                /\ (result.status # "Err" \/ merged)) =>
        /\ Len(namespaces) = Len(namespace_keys)
        /\ \A i \in DOMAIN namespaces :
              /\ namespaces[i].key = namespace_keys[i]
              /\ namespaces[i].locales = cfg_locales
        /\ scope_locales[1] = cfg_locales[1]
        /\ merged =>
              /\ \E i \in 2..Len(scope_locales) : cur.name = namespaces[ni].locales[i]
              /\ pre_path.namespace = namespaces[ni].key
              /\ cur.name = scope_locales[2] => pre_path = KeyPath_new(namespaces[ni].key)
              /\ \A i \in DOMAIN emitted :
                    emitted[i].key_path.namespace = namespaces[ni].key
        /\ pc \in {"check", "merge"} =>
              DOMAIN keys = {namespaces[i].key : i \in 1..(ni - 1)}
        /\ result.status = "Ok" =>
              /\ result.value.kind = "NameSpaces"
              /\ DOMAIN result.value.keys = Range(namespace_keys)
              /\ SchemaOf(default_tree, result.value.keys[namespaces[ni].key])

C6_Witness ==
    /\ namespaced
    /\ result.status = "Ok"
    /\ Len(namespace_keys) >= 2
    /\ Len(cfg_locales) >= 2
    /\ merged
    /\ result.value.keys[namespace_keys[1]] # result.value.keys[namespace_keys[2]]

\* C7: the path a load opens is {base}/{locale}.{ext} in flat mode and
\* {base}/{locale}/{namespace}.{ext} in namespaced mode, the identifier
\* whole.
C7_PathConvention ==
    opened # <<>> => opened = ExpectedPath(loading.locale, loading.namespace)

\* C9: after every load, failed or not, the path buffer holds the value it
\* had when the load began.
C9_PathRestored ==
    path = path_before

\* C8: a Locale::merge that returns leaves the KeyPath as it found it, and
\* every warning carries the path of a missing or surplus key.
C8_KeyPathStack ==
    merge_ok =>
        /\ key_path = pre_path
        /\ \A i \in DOMAIN emitted :
              emitted[i].key_path \in
                  {ScopePath(p) : p \in MissingPaths(cur.keys, default_keys, <<>>)
                                         \cup SurplusPaths(cur.keys, default_keys, <<>>)}

\* C10: the outcome of the inherit-marker check and of every merge is the
\* same under every iteration order of the maps: an error of the same kind
\* or none, the same Schema and, when the merge returns, the same set of
\* warnings.
C10_OrderIndependent ==
    /\ result.err.kind = "ExplicitDefaultInDefault" =>
          \A o \in Orders(AllKeys) :
              default_check(default_tree, Iter(default_tree, o),
                            KeyPath_new(scope_namespace)).kind = result.err.kind
    /\ merged =>
          \A ord \in IterOrders :
              LET r == Locale_merge(cur.keys, default_keys, cur.name, pre_path, ord)
              IN  /\ r.err.kind = result.err.kind
                  /\ r.keys = default_keys
                  /\ merge_ok => Range(r.warnings) = Range(emitted)

====
